---- MODULE Spec2Model ----
(***************************************************************************)
(* Model of tools/codectest.cpp: the experimental vertex codec encodeV1    *)
(* (zigzag deltas, 16-byte groups packed at 1/2/4/8 bits with escape       *)
(* bytes, blocks with a carried predictor, padded tail) and the bit-plane  *)
(* codec encodeNDZ.                                                        *)
(*                                                                         *)
(* Pointers into the destination are byte offsets from `buffer`; mem is    *)
(* the destination's content, one element per byte that has been written   *)
(* at least once (discarded trial encodings included), so Len(mem) is the  *)
(* high-water mark of all writes.                                          *)
(***************************************************************************)
EXTENDS Integers, Sequences, FiniteSets, TLC

VARIABLES
    pc,             \* position in the code
    vertices,       \* the caller's record array, flat bytes
    vertex_data,    \* offset in vertices (in bytes) of the array being encoded
    vertex_count,
    vertex_size,
    buffer_size,    \* destination capacity of the running call
    mem,            \* destination bytes written so far
    data,           \* write cursor (offset from buffer)
    data_end,       \* encodeBytes' data_end (offset from buffer)
    first_vertex,
    last_vertex,
    vertex_offset,
    block_size,
    k,              \* channel loop counter of encodeVertexBlock / encodeNDZ
    buffer,         \* delta scratch buffer handed to encodeBytes
    header,         \* encodeBytes: offset of the header bytes
    i,              \* encodeBytes: group loop counter; encodeNDZ: chunk counter
    ret,            \* encodeBytes' return value: [ok |-> FALSE] is NULL
    result,         \* return value of the top-level call
    last,           \* encodeNDZ: previous rotated word of the channel
    pos,            \* encodeNDZ: write cursor (offset from buffer)
    ub,             \* an out-of-bounds write has happened
    call,           \* which call is running: "ref", "capped", "suffix", ...
    ref,            \* what the unconstrained encodeV1 call returned
    groups,         \* observation: the groups encoded by the running encodeBytes call
    blocks          \* observation: the blocks completed by the running call

vars == <<pc, vertices, vertex_data, vertex_count, vertex_size, buffer_size, mem,
          data, data_end, first_vertex, last_vertex, vertex_offset, block_size, k,
          buffer, header, i, ret, result, last, pos, ub, call, ref, groups, blocks>>

(***************************************************************************)
(* Program constants                                                       *)
(***************************************************************************)
kVertexHeader == 160
gEncodeVertexVersion == 1
kVertexBlockSizeBytes == 8192
kVertexBlockMaxSize == 256
kByteGroupSize == 16
kTailMaxSize == 32
\* variants of the headroom constant: too small for a trial, larger than the tail
kByteGroupDecodeLimit_tight == kByteGroupSize
kByteGroupDecodeLimit_wide == kTailMaxSize + 8
kByteGroupDecodeLimit == 24

(***************************************************************************)
(* Bounds of the model                                                     *)
(***************************************************************************)
\* capacity of a call the claims treat as unconstrained
Unconstrained == 100000
\* largest number of groups in a buffer handed directly to encodeBytes
MaxGroups == 5
\* capped calls use capacities N - CapWindow .. N + CapSlack around the exact size N
CapWindow == 44
CapSlack == 2

(***************************************************************************)
(* Byte arithmetic                                                         *)
(***************************************************************************)
Min(a, b) == IF a < b THEN a ELSE b
Max(a, b) == IF a > b THEN a ELSE b

RECURSIVE Pow2(_)
Pow2(n) == IF n = 0 THEN 1 ELSE 2 * Pow2(n - 1)

\* bitwise operations on n-bit values, least significant bit first
RECURSIVE BitXor(_, _, _)
BitXor(a, b, n) ==
    IF n = 0 THEN 0
    ELSE IF b = 0 THEN a % Pow2(n)
    ELSE (((a % 2) + (b % 2)) % 2) + 2 * BitXor(a \div 2, b \div 2, n - 1)

RECURSIVE BitOr(_, _, _)
BitOr(a, b, n) ==
    IF n = 0 THEN 0
    ELSE IF b = 0 THEN a % Pow2(n)
    ELSE Max(a % 2, b % 2) + 2 * BitOr(a \div 2, b \div 2, n - 1)

Bit(x, r) == (x \div Pow2(r)) % 2

\* unsigned char truncation
U8(x) == x % 256

\* (signed char)(v) >> 7 is 0 or -1 (all ones); the result is cut to 8 bits
zigzag8(v) == BitXor(IF v >= 128 THEN 255 ELSE 0, U8(v * 2), 8)

\* size_t result = 8192 / vertex_size; result &= ~15; min(result, 256)
getVertexBlockSize(size) ==
    LET res == (kVertexBlockSizeBytes \div size)
               - ((kVertexBlockSizeBytes \div size) % kByteGroupSize)
    IN  IF res < kVertexBlockMaxSize THEN res ELSE kVertexBlockMaxSize

(***************************************************************************)
(* Memory writes                                                           *)
(***************************************************************************)
\* m after bytes are stored at offsets at .. at + Len(bytes) - 1
Write(m, at, bytes) ==
    IF at <= Len(m)
    THEN SubSeq(m, 1, at) \o bytes \o SubSeq(m, at + Len(bytes) + 1, Len(m))
    ELSE m \o [j \in 1..(at - Len(m)) |-> 0] \o bytes

Zeros(n) == [j \in 1..n |-> 0]

(***************************************************************************)
(* encodeBytesGroupZero, encodeBytesGroupTry                               *)
(***************************************************************************)
\* variant: the loop of line 59 started at 1
encodeBytesGroupZero_short(group) == \A j \in 2..kByteGroupSize : group[j] = 0

encodeBytesGroupZero(group) == \A j \in 1..kByteGroupSize : group[j] = 0

\* variant: > in place of >=
Escaped_strict(v, sentinel) == v > sentinel

\* line 92 and line 103: is the value out of range for the field
Escaped(v, sentinel) == v >= sentinel

\* lines 88-96: the byte packed from group[at+1 .. at+n]
RECURSIVE PackByte(_, _, _, _)
PackByte(group, at, n, bits) ==
    IF n = 0 THEN 0
    ELSE LET sentinel == Pow2(bits) - 1
             v == group[at + n]
             enc == IF Escaped(v, sentinel) THEN sentinel ELSE v
         IN  BitOr(U8(PackByte(group, at, n - 1, bits) * Pow2(bits)), enc, 8)

\* The bytes a call stores at data, and whether it returns non-NULL.
encodeBytesGroupTry(group, bits) ==
    IF bits = 1 THEN [ok |-> encodeBytesGroupZero(group), bytes |-> <<>>]
    ELSE IF bits = 8 THEN [ok |-> TRUE, bytes |-> SubSeq(group, 1, kByteGroupSize)]
    ELSE LET byte_size == 8 \div bits
             sentinel == Pow2(bits) - 1
             fixed == [n \in 1..(kByteGroupSize \div byte_size) |->
                          PackByte(group, (n - 1) * byte_size, byte_size, bits)]
             esc(v) == Escaped(v, sentinel)
         IN  [ok |-> TRUE, bytes |-> fixed \o SelectSeq(group, esc)]

(***************************************************************************)
(* encodeBytes                                                             *)
(***************************************************************************)
\* line 119
HeaderSize(size) == ((size \div kByteGroupSize) + 3) \div 4

\* variant: <= in place of <
Better_tie(next, best_size) == next.ok /\ Len(next.bytes) <= best_size

\* line 140: does the candidate replace the best so far
Better(next, best_size) == next.ok /\ Len(next.bytes) < best_size

\* variant: the loop started at 2
FirstBits_skip == 1 * 2

\* line 136: the first width the loop tries
FirstBits == 1

\* lines 136-145: the loop over bits = 1, 2, 4; every attempt stores its bytes at at
RECURSIVE SearchBits(_, _, _, _)
SearchBits(s, group, at, bits) ==
    IF bits >= 8 THEN s
    ELSE LET next == encodeBytesGroupTry(group, bits)
             m == Write(s.mem, at, next.bytes)
             t == Max(s.trial, Len(next.bytes))
         IN  SearchBits(IF Better(next, s.best_size)
                          THEN [best_bits |-> bits, best_size |-> Len(next.bytes),
                                mem |-> m, trial |-> t]
                          ELSE [s EXCEPT !.mem = m, !.trial = t],
                        group, at, bits * 2)

\* line 147
BitsLog2(best_bits) ==
    IF best_bits = 1 THEN 0 ELSE IF best_bits = 2 THEN 1 ELSE IF best_bits = 4 THEN 2 ELSE 3

\* variant: the factor 2 left out
HeaderShift_narrow(header_offset) == header_offset % 4

\* line 152: the shift of a group's slot in its header byte
HeaderShift(header_offset) == (header_offset % 4) * 2

NULL == [ok |-> FALSE, data |-> 0]

\* lines 114-126
EBEntry ==
    /\ pc = "eb_entry"
    /\ LET header_size == HeaderSize(Len(buffer))
       IN  IF data_end - data < header_size
           THEN /\ ret' = NULL
                /\ pc' = "eb_ret"
                /\ UNCHANGED <<mem, data, header, i>>
           ELSE /\ header' = data
                /\ data' = data + header_size
                /\ mem' = Write(mem, data, Zeros(header_size))
                /\ i' = 0
                /\ pc' = "eb_loop"
                /\ ret' = ret
    /\ groups' = <<>>
    /\ UNCHANGED <<vertices, vertex_data, vertex_count, vertex_size, buffer_size,
                   data_end, first_vertex, last_vertex, vertex_offset, block_size, k,
                   buffer, result, last, pos, ub, call, ref, blocks>>

\* lines 128-162: one iteration of the group loop
EBGroup ==
    /\ pc = "eb_loop"
    /\ i < Len(buffer)
    /\ IF data_end - data < kByteGroupDecodeLimit
       THEN /\ ret' = NULL
            /\ pc' = "eb_ret"
            /\ UNCHANGED <<mem, data, i, groups>>
       ELSE LET group == SubSeq(buffer, i + 1, i + kByteGroupSize)
                base == encodeBytesGroupTry(group, 8)
                s == SearchBits([best_bits |-> 8, best_size |-> Len(base.bytes),
                                 mem |-> Write(mem, data, base.bytes),
                                 trial |-> Len(base.bytes)],
                                group, data, FirstBits)
                bitslog2 == BitsLog2(s.best_bits)
                header_offset == i \div kByteGroupSize
                hb == header + (header_offset \div 4)
                m1 == [s.mem EXCEPT ![hb + 1] =
                          BitOr(@, U8(bitslog2 * Pow2(HeaderShift(header_offset))), 8)]
                next == encodeBytesGroupTry(group, s.best_bits)
            IN  /\ mem' = Write(m1, data, next.bytes)
                /\ data' = data + Len(next.bytes)
                /\ i' = i + kByteGroupSize
                /\ groups' = Append(groups,
                       [group |-> group, bits |-> s.best_bits, size |-> s.best_size,
                        at |-> data, next |-> data + Len(next.bytes), ok |-> next.ok,
                        slot |-> header_offset, room |-> data_end - data,
                        trial |-> s.trial])
                /\ UNCHANGED <<pc, ret>>
    /\ UNCHANGED <<vertices, vertex_data, vertex_count, vertex_size, buffer_size,
                   data_end, first_vertex, last_vertex, vertex_offset, block_size, k,
                   buffer, header, result, last, pos, ub, call, ref, blocks>>

\* line 168
EBExit ==
    /\ pc = "eb_loop"
    /\ i >= Len(buffer)
    /\ ret' = [ok |-> TRUE, data |-> data]
    /\ pc' = "eb_ret"
    /\ UNCHANGED <<vertices, vertex_data, vertex_count, vertex_size, buffer_size, mem,
                   data, data_end, first_vertex, last_vertex, vertex_offset, block_size,
                   k, buffer, header, i, result, last, pos, ub, call, ref, groups, blocks>>

(***************************************************************************)
(* encodeBytes called directly on buffers of 1..MaxGroups groups           *)
(***************************************************************************)
\* A group of nh values hi, nm values mid and the rest lo, spread by step.
TestGroup(nh, nm, hi, mid, lo, step) ==
    [j \in 1..kByteGroupSize |->
        LET r == ((j - 1) * step) % kByteGroupSize
        IN  IF r < nh THEN hi ELSE IF r < nh + nm THEN mid ELSE lo]

\* g groups; group t shifts the counts so that the groups of a buffer differ
TestBuffer(g, nh, nm, hi, mid, lo, step) ==
    [j \in 1..(g * kByteGroupSize) |->
        LET t == (j - 1) \div kByteGroupSize
            h == (nh + 5 * t) % (kByteGroupSize + 1)
            m == (nm + 3 * t) % (kByteGroupSize + 1 - h)
        IN  TestGroup(h, m, hi, mid, lo, step)[((j - 1) % kByteGroupSize) + 1]]

TestBuffers ==
    { TestBuffer(1, nh, nm, hi, mid, lo, step) :
        nh \in 0..kByteGroupSize, nm \in {0, 1, 3, 4, 5, 8, 11, 12, 13, 16},
        hi \in {15, 255}, mid \in {3, 14}, lo \in {0, 2}, step \in {1, 5} }
    \cup
    { TestBuffer(g, nh, nm, 255, 3, 0, 5) :
        g \in 2..MaxGroups, nh \in {0, 1, 7, 8, 12, 16}, nm \in {0, 4, 12} }

TestCapacities == {0, 1, kByteGroupDecodeLimit, kByteGroupDecodeLimit + 1, Unconstrained}

InitBytes ==
    /\ pc = "eb_entry"
    /\ buffer \in TestBuffers
    /\ data_end \in TestCapacities
    /\ buffer_size = data_end
    /\ data = 0
    /\ mem = <<>>
    /\ header = 0
    /\ i = 0
    /\ ret = NULL
    /\ groups = <<>>
    /\ vertices = <<>>
    /\ vertex_data = 0
    /\ vertex_count = 0
    /\ vertex_size = 4
    /\ first_vertex = <<>>
    /\ last_vertex = <<>>
    /\ vertex_offset = 0
    /\ block_size = 0
    /\ k = 0
    /\ result = 0
    /\ last = 0
    /\ pos = 0
    /\ ub = FALSE
    /\ call = "encodeBytes"
    /\ ref = [size |-> 0, mem |-> <<>>, blocks |-> <<>>]
    /\ blocks = <<>>

NextBytes == EBEntry \/ EBGroup \/ EBExit

SpecBytes == InitBytes /\ [][NextBytes]_vars

(***************************************************************************)
(* encodeVertexBlock and encodeV1                                          *)
(*                                                                         *)
(* first_vertex and last_vertex are arrays of 256 bytes of which only the  *)
(* first vertex_size are ever read or written; the model keeps those.      *)
(***************************************************************************)
\* byte n (from 0) of the array of the running call
VertexByte(n) == vertices[vertex_data + n + 1]

\* record a (from 0) of the array of the running call
Record(a) == [j \in 1..vertex_size |-> VertexByte(a * vertex_size + j - 1)]

\* line 213: the length handed to encodeBytes
PaddedSize(count) == count + kByteGroupSize - 1 - ((count + kByteGroupSize - 1) % kByteGroupSize)

\* lines 185-194: the zigzag deltas of channel ch of the block at record offset,
\* in a buffer that line 179 has zeroed
ChannelDeltas(offset, count, ch, lastv) ==
    LET v(n) == VertexByte((offset + n) * vertex_size + ch)
        p(n) == IF n = 0 THEN lastv[ch + 1] ELSE v(n - 1)
    IN  [n \in 1..PaddedSize(count) |->
            IF n <= count THEN zigzag8(U8(v(n - 1) - p(n - 1) + 256)) ELSE 0]

\* variant: the first record of the block
PredictorRecord_first(count) == 0

\* line 223: the record of the block that becomes the predictor
PredictorRecord(count) == count - 1

\* line 262
BlockSize(offset, vertex_block_size, count) ==
    IF offset + vertex_block_size < count THEN vertex_block_size ELSE count - offset

\* line 271
TailSize(size) == IF size < kTailMaxSize THEN kTailMaxSize ELSE size

\* variant: last_vertex in place of first_vertex
TailRecord_last(first, lastv) == lastv

\* line 283: the record stored in the tail
TailRecord(first, lastv) == first

inputVars == <<vertices, vertex_data, vertex_count, vertex_size>>
bytesVars == <<buffer, header, i, ret, groups>>
otherVars == <<last, pos, ub>>

\* lines 237-258
V1Entry ==
    /\ pc = "v1_entry"
    /\ IF buffer_size - data < 1 + vertex_size
       THEN /\ result' = 0
            /\ pc' = "v1_done"
            /\ UNCHANGED <<mem, data, data_end, first_vertex, last_vertex, vertex_offset>>
       ELSE /\ mem' = Write(mem, data, <<BitOr(kVertexHeader, gEncodeVertexVersion, 8)>>)
            /\ data' = data + 1
            /\ data_end' = buffer_size
            /\ first_vertex' = IF vertex_count > 0 THEN Record(0) ELSE Zeros(vertex_size)
            /\ last_vertex' = first_vertex'
            /\ vertex_offset' = 0
            /\ pc' = "v1_loop"
            /\ result' = result
    /\ UNCHANGED <<buffer_size, block_size, k, call, ref, blocks>>
    /\ UNCHANGED <<inputVars, bytesVars, otherVars>>

\* lines 260-264: the loop takes the next block and calls encodeVertexBlock
V1Block ==
    /\ pc = "v1_loop"
    /\ vertex_offset < vertex_count
    /\ block_size' = BlockSize(vertex_offset, getVertexBlockSize(vertex_size), vertex_count)
    /\ k' = 0
    /\ pc' = "vb_channel"
    /\ UNCHANGED <<buffer_size, mem, data, data_end, first_vertex, last_vertex,
                   vertex_offset, result, call, ref, blocks>>
    /\ UNCHANGED <<inputVars, bytesVars, otherVars>>

\* lines 181-213: the deltas of channel k, then the call of encodeBytes
VBChannel ==
    /\ pc = "vb_channel"
    /\ k < vertex_size
    /\ buffer' = ChannelDeltas(vertex_offset, block_size, k, last_vertex)
    /\ pc' = "eb_entry"
    /\ UNCHANGED <<buffer_size, mem, data, data_end, first_vertex, last_vertex,
                   vertex_offset, block_size, k, header, i, ret, groups, result, call,
                   ref, blocks>>
    /\ UNCHANGED <<inputVars, otherVars>>

\* lines 213-215, and 265-266 when encodeVertexBlock returns NULL
VBAfterBytes ==
    /\ pc = "eb_ret"
    /\ call # "encodeBytes"
    /\ IF ~ret.ok
       THEN /\ result' = 0
            /\ pc' = "v1_done"
            /\ UNCHANGED <<data, k>>
       ELSE /\ data' = ret.data
            /\ k' = k + 1
            /\ pc' = "vb_channel"
            /\ result' = result
    /\ UNCHANGED <<buffer_size, mem, data_end, first_vertex, last_vertex, vertex_offset,
                   block_size, call, ref, blocks>>
    /\ UNCHANGED <<inputVars, bytesVars, otherVars>>

\* lines 223-225 and 268: the predictor is replaced, the block is done
VBEnd ==
    /\ pc = "vb_channel"
    /\ k >= vertex_size
    /\ last_vertex' = Record(vertex_offset + PredictorRecord(block_size))
    /\ vertex_offset' = vertex_offset + block_size
    /\ blocks' = Append(blocks,
           [from |-> IF blocks = <<>> THEN (IF call = "suffix" THEN 0 ELSE 1)
                     ELSE blocks[Len(blocks)].to,
            to |-> data, pred |-> last_vertex'])
    /\ pc' = "v1_loop"
    /\ UNCHANGED <<buffer_size, mem, data, data_end, first_vertex, block_size, k,
                   result, call, ref>>
    /\ UNCHANGED <<inputVars, bytesVars, otherVars>>

\* lines 271-313
V1Tail ==
    /\ pc = "v1_loop"
    /\ vertex_offset >= vertex_count
    /\ call # "suffix"
    /\ IF data_end - data < TailSize(vertex_size)
       THEN /\ result' = 0
            /\ UNCHANGED <<mem, data>>
       ELSE LET pad == IF vertex_size < kTailMaxSize THEN kTailMaxSize - vertex_size ELSE 0
                m == Write(mem, data, Zeros(pad))
            IN  /\ mem' = Write(m, data + pad, TailRecord(first_vertex, last_vertex))
                /\ data' = data + pad + vertex_size
                /\ result' = data'
    /\ pc' = "v1_done"
    /\ UNCHANGED <<buffer_size, data_end, first_vertex, last_vertex, vertex_offset,
                   block_size, k, call, ref, blocks>>
    /\ UNCHANGED <<inputVars, bytesVars, otherVars>>

(***************************************************************************)
(* The calls made on one record array: encodeV1 with unconstrained         *)
(* capacity first ("ref"); then either encodeV1 again on a destination of  *)
(* capacity c ("capped"), or the block loop of lines 260-269 run on the    *)
(* records from a block boundary on, into a fresh destination, starting    *)
(* from the predictor the first call had at that boundary ("suffix").      *)
(***************************************************************************)
Finished == [size |-> result, mem |-> SubSeq(mem, 1, result), blocks |-> blocks]

CallCapped ==
    /\ pc = "v1_done"
    /\ call = "ref"
    /\ \E c \in 0..(result + CapSlack) :
          /\ c + CapWindow >= result
          /\ buffer_size' = c
    /\ ref' = Finished
    /\ call' = "capped"
    /\ pc' = "v1_entry"
    /\ mem' = <<>>
    /\ data' = 0
    /\ data_end' = 0
    /\ result' = 0
    /\ vertex_offset' = 0
    /\ block_size' = 0
    /\ k' = 0
    /\ buffer' = <<>>
    /\ header' = 0
    /\ i' = 0
    /\ ret' = NULL
    /\ groups' = <<>>
    /\ blocks' = <<>>
    /\ first_vertex' = <<>>
    /\ last_vertex' = <<>>
    /\ UNCHANGED <<inputVars, otherVars>>

CallSuffix ==
    /\ pc = "v1_done"
    /\ call = "ref"
    /\ result > 0
    /\ \E b \in 1..(Len(blocks) - 1) :
          LET s == b * getVertexBlockSize(vertex_size)
          IN  /\ vertex_data' = vertex_data + s * vertex_size
              /\ vertex_count' = vertex_count - s
              /\ last_vertex' = blocks[b].pred
    /\ k' = 0
    /\ ref' = Finished
    /\ call' = "suffix"
    /\ pc' = "v1_loop"
    /\ buffer_size' = Unconstrained
    /\ data_end' = Unconstrained
    /\ mem' = <<>>
    /\ data' = 0
    /\ result' = 0
    /\ vertex_offset' = 0
    /\ block_size' = 0
    /\ buffer' = <<>>
    /\ header' = 0
    /\ i' = 0
    /\ ret' = NULL
    /\ groups' = <<>>
    /\ blocks' = <<>>
    /\ UNCHANGED <<vertices, vertex_size, first_vertex, otherVars>>

\* the block loop of the suffix call is over: it returns its cursor
SuffixEnd ==
    /\ pc = "v1_loop"
    /\ vertex_offset >= vertex_count
    /\ call = "suffix"
    /\ result' = data
    /\ pc' = "v1_done"
    /\ UNCHANGED <<buffer_size, mem, data, data_end, first_vertex, last_vertex,
                   vertex_offset, block_size, k, call, ref, blocks>>
    /\ UNCHANGED <<inputVars, bytesVars, otherVars>>

(***************************************************************************)
(* Record arrays                                                           *)
(***************************************************************************)
\* byte ch of record n of a pattern
PatternByte(pattern, n, ch) ==
    U8(CASE pattern = 0 -> 0
         [] pattern = 1 -> (IF ch = 0 THEN <<0, 1, 2, 255>>[(n % 4) + 1] ELSE 0)
         [] pattern = 2 -> (CASE ch % 4 = 0 -> n
                              [] ch % 4 = 1 -> 7 * n
                              [] ch % 4 = 2 -> 5
                              [] ch % 4 = 3 -> 100 * n)
         [] pattern = 3 -> (CASE ch % 4 = 0 -> n + (IF n % 5 = 4 THEN 100 ELSE 0)
                              [] ch % 4 = 1 -> 255 - (n % 256)
                              [] ch % 4 = 2 -> 9 + 3 * (n \div 16)
                              [] ch % 4 = 3 -> n * n)
         [] pattern = 4 -> (IF ch % 4 = 0 THEN 15 + n ELSE 0))

MakeVertices(size, count, pattern) ==
    [j \in 1..(size * count) |-> PatternByte(pattern, (j - 1) \div size, (j - 1) % size)]

\* <<vertex_size, vertex_count, pattern>>
V1Inputs ==
    { <<4, 0, 0>>, <<4, 1, 2>>, <<4, 4, 0>>, <<4, 4, 1>>, <<4, 16, 2>>, <<4, 17, 2>>,
      <<4, 17, 3>>, <<4, 32, 2>>, <<4, 33, 3>>, <<4, 256, 3>>, <<4, 257, 2>>,
      <<4, 272, 3>>, <<8, 0, 0>>, <<8, 1, 3>>, <<8, 17, 2>>, <<12, 5, 3>>,
      <<32, 0, 0>>, <<32, 2, 2>>, <<48, 0, 0>>, <<48, 3, 3>>, <<256, 0, 0>> }

InitV1 ==
    /\ \E inp \in V1Inputs :
          /\ vertex_size = inp[1]
          /\ vertex_count = inp[2]
          /\ vertices = MakeVertices(inp[1], inp[2], inp[3])
    /\ vertex_data = 0
    /\ call = "ref"
    /\ pc = "v1_entry"
    /\ buffer_size = Unconstrained
    /\ mem = <<>>
    /\ data = 0
    /\ data_end = 0
    /\ first_vertex = <<>>
    /\ last_vertex = <<>>
    /\ vertex_offset = 0
    /\ block_size = 0
    /\ k = 0
    /\ buffer = <<>>
    /\ header = 0
    /\ i = 0
    /\ ret = NULL
    /\ result = 0
    /\ last = 0
    /\ pos = 0
    /\ ub = FALSE
    /\ ref = [size |-> 0, mem |-> <<>>, blocks |-> <<>>]
    /\ groups = <<>>
    /\ blocks = <<>>

NextV1 ==
    \/ V1Entry \/ V1Block \/ V1Tail
    \/ VBChannel \/ VBAfterBytes \/ VBEnd
    \/ EBEntry \/ EBGroup \/ EBExit
    \/ CallCapped \/ CallSuffix \/ SuffixEnd

SpecV1 == InitV1 /\ [][NextV1]_vars

(***************************************************************************)
(* encodeNDZ                                                               *)
(*                                                                         *)
(* An unsigned int is a sequence of 32 bits, least significant first.  The *)
(* loads and stores through unsigned int pointers are little-endian, as on *)
(* the targets the tool is built for.                                      *)
(***************************************************************************)
ZeroWord == [r \in 1..32 |-> 0]

\* line 330: the word at byte n of the array
ReadWord(n) == [r \in 1..32 |-> Bit(VertexByte(n + ((r - 1) \div 8)), (r - 1) % 8)]

\* line 332: (value << 1) | (value >> 31)
RotateLeft1(w) == [r \in 1..32 |-> w[IF r = 1 THEN 32 ELSE r - 1]]

\* line 333: a - b modulo 2^32
RECURSIVE SubBits(_, _, _, _)
SubBits(a, b, r, borrow) ==
    IF r > 32 THEN <<>>
    ELSE LET d == a[r] - b[r] - borrow
         IN  <<d % 2>> \o SubBits(a, b, r + 1, IF d < 0 THEN 1 ELSE 0)

Sub32(a, b) == SubBits(a, b, 1, 0)

\* line 334: d ^= (d >> 31) ? 0x7fffffff : 0
FoldSign(d) == IF d[32] = 1 THEN [r \in 1..32 |-> IF r < 32 THEN 1 - d[r] ELSE d[r]] ELSE d

\* the four bytes an unsigned int store writes
WordBytes(w) ==
    [b \in 1..4 |->
        LET bit(t) == w[8 * (b - 1) + t + 1]
        IN  bit(0) + 2 * bit(1) + 4 * bit(2) + 8 * bit(3)
            + 16 * bit(4) + 32 * bit(5) + 64 * bit(6) + 128 * bit(7)]

\* lines 326-337: the deltas of the chunk at record at of the channel at byte ch
ChunkDeltas(at, ch, carried) ==
    LET value(j) == RotateLeft1(ReadWord((at + j) * vertex_size + ch))
        prev(j) == IF j = 0 THEN carried ELSE value(j - 1)
    IN  [n \in 1..32 |->
            IF at + n - 1 < vertex_count
            THEN FoldSign(Sub32(value(n - 1), prev(n - 1)))
            ELSE ZeroWord]

\* lines 339-343
Transpose(deltas) == [jr \in 1..32 |-> [jc \in 1..32 |-> deltas[jc][jr]]]

\* lines 345-348
PlaneMask(transposed) == [j \in 1..32 |-> IF transposed[j] # ZeroWord THEN 1 ELSE 0]

\* lines 350-358: the bytes stored for a chunk, the mask and then the nonzero planes
RECURSIVE PlaneBytes(_, _)
PlaneBytes(transposed, j) ==
    IF j > 32 THEN <<>>
    ELSE (IF transposed[j] # ZeroWord THEN WordBytes(transposed[j]) ELSE <<>>)
         \o PlaneBytes(transposed, j + 1)

ChunkBytes(transposed) == WordBytes(PlaneMask(transposed)) \o PlaneBytes(transposed, 1)

\* lines 320-322: the next channel, or line 362 when there is none
NDZChannel ==
    /\ pc = "ndz_channel"
    /\ IF k < vertex_size
       THEN /\ last' = ZeroWord
            /\ i' = 0
            /\ pc' = "ndz_chunk"
            /\ result' = result
       ELSE /\ result' = pos
            /\ pc' = "ndz_done"
            /\ UNCHANGED <<last, i>>
    /\ UNCHANGED <<vertices, vertex_data, vertex_count, vertex_size, buffer, header, ret,
                   groups, buffer_size, data, data_end, first_vertex, last_vertex,
                   vertex_offset, block_size, call, ref, blocks, mem, pos, ub, k>>

\* lines 324-359: one chunk of 32 records.  Nothing compares pos with buffer_size;
\* a store at or beyond buffer + buffer_size is undefined behaviour, after which
\* the call may go on over the memory behind the buffer or may be killed.
NDZChunk ==
    /\ pc = "ndz_chunk"
    /\ i < vertex_count
    /\ LET deltas == ChunkDeltas(i, k, last)
           bytes == ChunkBytes(Transpose(deltas))
           n == Min(32, vertex_count - i)
       IN  /\ mem' = Write(mem, pos, bytes)
           /\ pos' = pos + Len(bytes)
           /\ last' = RotateLeft1(ReadWord((i + n - 1) * vertex_size + k))
           /\ IF pos + Len(bytes) > buffer_size
              THEN /\ ub' = TRUE
                   /\ \E outcome \in {"goes on", "killed"} :
                         pc' = IF outcome = "killed" THEN "ndz_killed" ELSE "ndz_chunk"
              ELSE /\ ub' = ub
                   /\ pc' = "ndz_chunk"
    /\ i' = i + 32
    /\ UNCHANGED <<vertices, vertex_data, vertex_count, vertex_size, buffer, header, ret,
                   groups, buffer_size, data, data_end, first_vertex, last_vertex,
                   vertex_offset, block_size, call, ref, blocks, result, k>>

\* line 320: k += 4
NDZChannelEnd ==
    /\ pc = "ndz_chunk"
    /\ i >= vertex_count
    /\ k' = k + 4
    /\ pc' = "ndz_channel"
    /\ UNCHANGED <<vertices, vertex_data, vertex_count, vertex_size, buffer, header, ret,
                   groups, buffer_size, data, data_end, first_vertex, last_vertex,
                   vertex_offset, block_size, call, ref, blocks, mem, pos, ub, i, last,
                   result>>

\* <<vertex_size, vertex_count, pattern>>
NDZInputs ==
    { <<4, 0, 0>>, <<4, 1, 0>>, <<4, 1, 2>>, <<4, 1, 4>>, <<4, 2, 3>>, <<4, 4, 1>>,
      <<4, 33, 2>>, <<8, 1, 3>>, <<8, 2, 4>>, <<8, 33, 3>>, <<12, 5, 3>> }

\* main() passes a destination of four times the input size (line 420)
NDZCapacities(size, count) == {0, 4, 4 * size * count, Unconstrained}

InitNDZ ==
    /\ \E inp \in NDZInputs :
          /\ vertex_size = inp[1]
          /\ vertex_count = inp[2]
          /\ vertices = MakeVertices(inp[1], inp[2], inp[3])
          /\ buffer_size \in NDZCapacities(inp[1], inp[2])
    /\ vertex_data = 0
    /\ call = "encodeNDZ"
    /\ pc = "ndz_channel"
    /\ pos = 0
    /\ k = 0
    /\ i = 0
    /\ last = ZeroWord
    /\ ub = FALSE
    /\ mem = <<>>
    /\ result = 0
    /\ data = 0
    /\ data_end = 0
    /\ first_vertex = <<>>
    /\ last_vertex = <<>>
    /\ vertex_offset = 0
    /\ block_size = 0
    /\ buffer = <<>>
    /\ header = 0
    /\ ret = NULL
    /\ ref = [size |-> 0, mem |-> <<>>, blocks |-> <<>>]
    /\ groups = <<>>
    /\ blocks = <<>>

NextNDZ == NDZChannel \/ NDZChunk \/ NDZChannelEnd

SpecNDZ == InitNDZ /\ [][NextNDZ]_vars

(***************************************************************************)
(* The group decoder of the format: reads a group stored at offset at of m *)
(* at the given width.  Fields are taken most significant first; a field   *)
(* equal to the sentinel stands for the next escape byte.  A read past the *)
(* written bytes yields 256, which is no byte.                             *)
(***************************************************************************)
ReadByte(m, at) == IF at + 1 <= Len(m) THEN m[at + 1] ELSE 256

decodeBytesGroup(m, at, bits) ==
    IF bits = 1 THEN [out |-> Zeros(kByteGroupSize), consumed |-> 0]
    ELSE IF bits = 8
    THEN [out |-> [j \in 1..kByteGroupSize |-> ReadByte(m, at + j - 1)],
          consumed |-> kByteGroupSize]
    ELSE LET byte_size == 8 \div bits
             sentinel == Pow2(bits) - 1
             nfixed == kByteGroupSize \div byte_size
             field(j) == (ReadByte(m, at + ((j - 1) \div byte_size))
                            \div Pow2(bits * (byte_size - 1 - ((j - 1) % byte_size))))
                         % Pow2(bits)
             nesc(j) == Cardinality({n \in 1..j : field(n) = sentinel})
         IN  [out |-> [j \in 1..kByteGroupSize |->
                          IF field(j) = sentinel
                          THEN ReadByte(m, at + nfixed + nesc(j) - 1)
                          ELSE field(j)],
              consumed |-> nfixed + nesc(kByteGroupSize)]

\* the width a 2-bit selector stands for, and the selector of slot n of a header at h
SelectorWidth(code) == Pow2(code)
ReadSelector(m, h, n) == (ReadByte(m, h + (n \div 4)) \div Pow2(2 * (n % 4))) % 4

(***************************************************************************)
(* Observations on the group encoded last                                  *)
(***************************************************************************)
HasGroup == groups # <<>>
LastGroup == groups[Len(groups)]

CountAtLeast(group, v) == Cardinality({j \in 1..kByteGroupSize : group[j] >= v})
AllZero(group) == CountAtLeast(group, 1) = 0

\* the size of a group at a width, from the format's definition
FormatSize(group, bits) ==
    IF bits = 8 THEN kByteGroupSize
    ELSE IF bits = 1 THEN 0
    ELSE (kByteGroupSize \div (8 \div bits)) + CountAtLeast(group, Pow2(bits) - 1)

Applicable(group, bits) == bits # 1 \/ AllZero(group)

\* the widths in the order the search considers them
CandidateOrder == <<8, 1, 2, 4>>

MinFormatSize(group) ==
    CHOOSE n \in 0..kByteGroupDecodeLimit :
        /\ \E c \in 1..4 : /\ Applicable(group, CandidateOrder[c])
                           /\ FormatSize(group, CandidateOrder[c]) = n
        /\ \A c \in 1..4 : Applicable(group, CandidateOrder[c])
                              => FormatSize(group, CandidateOrder[c]) >= n

FirstMinimal(group) ==
    LET hit(c) == /\ Applicable(group, CandidateOrder[c])
                  /\ FormatSize(group, CandidateOrder[c]) = MinFormatSize(group)
    IN  CandidateOrder[CHOOSE c \in 1..4 : hit(c) /\ \A d \in 1..(c - 1) : ~hit(d)]

(***************************************************************************)
(* Claims about encodeBytes (SpecBytes)                                    *)
(***************************************************************************)

\* C2: decoding the group encoded last, at the width its selector in the header
\* names, gives back the 16 bytes of the group and consumes exactly the bytes
\* the encoder emitted for it.
C2_GroupRoundTrip ==
    HasGroup =>
        LET e == LastGroup
            d == decodeBytesGroup(mem, e.at, SelectorWidth(ReadSelector(mem, header, e.slot)))
        IN  /\ d.out = e.group
            /\ d.consumed = e.next - e.at

\* a group packed at width 2 or 4 that holds a value equal to the sentinel
C2_Witness ==
    /\ pc = "eb_ret" /\ ret.ok /\ HasGroup
    /\ LastGroup.bits \in {2, 4}
    /\ \E j \in 1..kByteGroupSize : LastGroup.group[j] = Pow2(LastGroup.bits) - 1

\* C3 as stated: width 1 is never selected for a group with a nonzero byte, and
\* width b in {2, 4} is never selected for a group with a byte >= 2^b - 1.
C3_Original ==
    HasGroup =>
        LET e == LastGroup
        IN  /\ e.bits = 1 => AllZero(e.group)
            /\ e.bits \in {2, 4} => CountAtLeast(e.group, Pow2(e.bits) - 1) = 0

\* C3 amended: width 1 is never selected for a group with a nonzero byte; width 2
\* is never selected for a group with 12 or more bytes >= 3, and width 4 never
\* for a group with 8 or more bytes >= 15.
C3_Exclusion ==
    HasGroup =>
        LET e == LastGroup
        IN  /\ e.bits = 1 => AllZero(e.group)
            /\ e.bits = 2 => CountAtLeast(e.group, 3) < 12
            /\ e.bits = 4 => CountAtLeast(e.group, 15) < 8

\* a group with a nonzero byte only in its first place, encoded at a width wider
\* than 1 with that byte escaped
C3_Witness ==
    /\ HasGroup
    /\ LastGroup.group[1] >= 15
    /\ \A j \in 2..kByteGroupSize : LastGroup.group[j] = 0
    /\ LastGroup.bits = 2

\* C8: the width selected for a group is the first of 8, 1, 2, 4 that reaches
\* the minimum size over the applicable widths, and the bytes emitted for the
\* group have the size found by the search.
C8_WidthSelection ==
    HasGroup =>
        LET e == LastGroup
        IN  /\ e.bits = FirstMinimal(e.group)
            /\ e.size = MinFormatSize(e.group)
            /\ e.ok
            /\ e.next = e.at + e.size

\* widths 2, 4 and 8 all give 16 bytes (12 escapes at width 2, 8 at width 4)
C8_Witness ==
    /\ HasGroup
    /\ CountAtLeast(LastGroup.group, 3) = 12
    /\ CountAtLeast(LastGroup.group, 15) = 8
    /\ LastGroup.bits = 8

\* C9: after a successful call the header is ceil(g/4) bytes, slot j holds the
\* code of group j's width, the unused slots are 0, every slot was written once,
\* and the payloads follow the header in group order without gaps.
C9_HeaderLayout ==
    (pc = "eb_ret" /\ ret.ok) =>
        LET g == Len(buffer) \div kByteGroupSize
            nheader == IF g % 4 = 0 THEN g \div 4 ELSE (g \div 4) + 1
            code(b) == CASE b = 1 -> 0 [] b = 2 -> 1 [] b = 4 -> 2 [] b = 8 -> 3
        IN  /\ Len(groups) = g
            /\ \A j \in 1..g :
                  /\ groups[j].slot = j - 1
                  /\ ReadSelector(mem, header, j - 1) = code(groups[j].bits)
                  /\ groups[j].at = IF j = 1 THEN header + nheader ELSE groups[j - 1].next
            /\ \A n \in g..(4 * nheader - 1) : ReadSelector(mem, header, n) = 0
            /\ ret.data = IF g = 0 THEN header ELSE groups[g].next

\* a buffer whose header takes two bytes, the second partly used
C9_Witness ==
    /\ pc = "eb_ret" /\ ret.ok
    /\ Len(groups) > 4 /\ Len(groups) % 4 # 0
    /\ \E j \in 2..Len(groups) : groups[j].bits # 1

(***************************************************************************)
(* Claims about encodeV1 and encodeVertexBlock (SpecV1)                    *)
(***************************************************************************)
InV1 == call \in {"ref", "capped"}
InLoop == /\ call \in {"ref", "capped", "suffix"}
          /\ pc \in {"v1_loop", "vb_channel", "eb_entry", "eb_loop", "eb_ret"}
Succeeded == pc = "v1_done" /\ result > 0

\* record a (from 0) of the caller's whole array
WholeRecord(a) == [j \in 1..vertex_size |-> vertices[a * vertex_size + j]]
\* the index in the whole array of the first record of the running call
FirstIndex == vertex_data \div vertex_size
BlockBytes(m, b) == SubSeq(m, b.from + 1, b.to)

\* C1: with N the size the unconstrained call returned, a call with capacity
\* below N returns 0, and a call with capacity N or more returns N and leaves
\* the same N bytes.
C1_MonotonicCapacity ==
    (pc = "v1_done" /\ call = "capped") =>
        /\ ref.size > 0
        /\ buffer_size < ref.size => result = 0
        /\ buffer_size >= ref.size =>
              /\ result = ref.size
              /\ SubSeq(mem, 1, result) = ref.mem

\* a call of several blocks whose capacity is exactly N
C1_Witness ==
    /\ pc = "v1_done" /\ call = "capped"
    /\ buffer_size = ref.size
    /\ result = ref.size
    /\ Len(blocks) >= 2

\* C5: while a block is being encoded last_vertex still is the record before
\* the block (the first record for the first block); one block is logged per
\* store into last_vertex, and the stored value is the block's last record;
\* and the blocks encoded from a block boundary on, starting from the
\* predictor carried to that boundary, are byte for byte the blocks of the
\* single pass.
C5_PredictorContinuity ==
    /\ InLoop =>
          LET a == FirstIndex + vertex_offset
              vbs == getVertexBlockSize(vertex_size)
          IN  /\ last_vertex = IF a > 0 THEN WholeRecord(a - 1)
                               ELSE IF vertex_count > 0 THEN WholeRecord(0)
                               ELSE Zeros(vertex_size)
              /\ Len(blocks) = (vertex_offset + vbs - 1) \div vbs
              /\ \A n \in 1..Len(blocks) :
                    blocks[n].pred =
                        WholeRecord(FirstIndex + Min(n * vbs, vertex_offset) - 1)
    /\ (pc = "v1_done" /\ call = "suffix") =>
          LET b == FirstIndex \div getVertexBlockSize(vertex_size)
          IN  /\ Len(blocks) = Len(ref.blocks) - b
              /\ \A n \in 1..Len(blocks) :
                    BlockBytes(mem, blocks[n]) = BlockBytes(ref.mem, ref.blocks[b + n])

\* the suffix of a pass of several blocks has been encoded on its own
C5_Witness ==
    /\ pc = "v1_done" /\ call = "suffix"
    /\ Len(blocks) >= 1
    /\ blocks[1].to > blocks[1].from + vertex_size
    /\ last_vertex # WholeRecord(0)

\* C6: a successful encodeV1 call ends with max(vertex_size, 32) bytes: zeros
\* up to 32 - vertex_size of them, then the first record (zeros for an empty
\* array).
C6_TailShape ==
    (Succeeded /\ InV1) =>
        LET t == IF vertex_size > 32 THEN vertex_size ELSE 32
            first == IF vertex_count > 0 THEN WholeRecord(0) ELSE Zeros(vertex_size)
        IN  /\ result >= t
            /\ SubSeq(mem, result - t + 1, result) = Zeros(t - vertex_size) \o first

\* a stream of several blocks and records of less than 32 bytes, the first of
\* them not zero
C6_Witness ==
    /\ Succeeded /\ InV1
    /\ Len(blocks) >= 2
    /\ vertex_size < 32
    /\ WholeRecord(0) # Zeros(vertex_size)

ExampleRecords == <<0, 0, 0, 0, 1, 0, 0, 0, 2, 0, 0, 0, 255, 0, 0, 0>>

\* C7: the stream starts with 0xA1; a group of zero deltas gets selector 0 and
\* no payload, a group with a nonzero delta never gets width 1; for the four
\* example records channel 0 gets a width other than 1 and channels 1..3 emit
\* one zero header byte each and nothing else.
C7_ConstantChannels ==
    /\ (InV1 /\ Len(mem) > 0) => mem[1] = 161
    /\ (InLoop /\ HasGroup) =>
          LET e == LastGroup
          IN  IF AllZero(e.group)
              THEN /\ e.bits = 1
                   /\ e.next = e.at
                   /\ ReadSelector(mem, header, e.slot) = 0
              ELSE e.bits # 1
    /\ (InV1 /\ vertices = ExampleRecords /\ vertex_size = 4 /\ pc = "eb_ret") =>
          /\ ret.ok \/ call = "capped"
          /\ ret.ok => IF k = 0
                       THEN groups[1].bits # 1 /\ ReadSelector(mem, header, 0) # 0
                       ELSE /\ ret.data = header + 1
                            /\ mem[header + 1] = 0
                            /\ groups[1].bits = 1

\* the last channel of the example records has been encoded
C7_Witness ==
    /\ call = "ref" /\ vertices = ExampleRecords /\ vertex_size = 4
    /\ pc = "eb_ret" /\ ret.ok /\ k = 3
    /\ ret.data = header + 1
    /\ mem[header + 1] = 0

\* C10: no byte is stored at or beyond buffer + buffer_size, trial encodings
\* included; a group is tried only with 24 or more bytes left, a trial stores
\* at most 24 bytes, the selected payload is at most 16 bytes; a block has 1 to
\* 256 records inside the array; a successful call returns at least the tail
\* size and at most the capacity.
C10_WriteBounds ==
    /\ Len(mem) <= buffer_size
    /\ data <= buffer_size
    /\ (InLoop /\ HasGroup) =>
          /\ LastGroup.room >= 24
          /\ LastGroup.trial <= 24
          /\ LastGroup.size <= 16
    /\ (InLoop /\ pc # "v1_loop") =>
          /\ block_size >= 1
          /\ block_size <= 256
          /\ vertex_offset + block_size <= vertex_count
    /\ (Succeeded /\ InV1) =>
          /\ result >= (IF vertex_size > 32 THEN vertex_size ELSE 32)
          /\ result <= buffer_size

\* a trial of 24 bytes stored with exactly 24 bytes left, in a call that fails
C10_Witness ==
    /\ call = "capped" /\ pc = "v1_done" /\ result = 0
    /\ HasGroup
    /\ LastGroup.trial = 24
    /\ LastGroup.room = 24
    /\ Len(mem) = buffer_size

(***************************************************************************)
(* Claims about encodeNDZ (SpecNDZ)                                        *)
(***************************************************************************)

\* C4: encodeNDZ never stores a byte at or beyond buffer + buffer_size, and a
\* call whose output does not fit in buffer_size returns 0.
C4_NDZCapacityChecked ==
    call = "encodeNDZ" =>
        /\ Len(mem) <= buffer_size
        /\ ~ub
        /\ pc = "ndz_done" => result <= buffer_size

====
